---- MODULE Spec2Model ----
(***************************************************************************)
(* Calibration scripts of qua-libs as state machines.                      *)
(*                                                                         *)
(*   drag    calibration_graph/09c_DRAG_Calibration_180_90.py              *)
(*   t2echo  calibration_graph/t2echo.py                                   *)
(*   iqblobs Two-Flux-Tunable-Transmons/12_IQ_blobs_active_reset.py        *)
(*   gst     gate_set_tomography/gst.py  (QuaGST.run)                      *)
(*                                                                         *)
(* One run of one script is one behaviour.  pc is the position of the      *)
(* script's single control thread; every action is one block of top-level  *)
(* statements.  Calls into the hardware runtime and the numeric libraries  *)
(* either return or raise; an uncaught exception ends the script.          *)
(***************************************************************************)
EXTENDS Integers, Sequences, FiniteSets, TLC

VARIABLES
    script,     \* which script runs
    params,     \* the Parameters object (node.parameters)
    stateFile,  \* the persisted device-state document read by QuAM.load()
    machine,    \* the in-memory DeviceState (machine), NoDoc before load
    targets,    \* the resolved list `qubits` (names, in order)
    tracked,    \* tracked_qubits: one wrapper per list entry, in creation order
    connected,  \* machine.connect() has been called
    qmOpen,     \* a quantum machine is open on the hardware
    job,        \* "none", "running", "finished", "simulated"
    poller,     \* index of the fetching_tool in use (t2echo builds one per qubit)
    sweep,      \* amps / idle_times
    results,    \* keys of node.results
    fit,        \* fit_results: qubit name -> derived alpha
    saved,      \* the machine state handed to node.save(), NoDoc if none
    error,      \* the uncaught exception that ended the run, "none" otherwise
    pc,
    \* ---- the QUA program drag_calibration as executed by the runtime ----
    qpc,        \* position inside the program
    qi,         \* index of the qubit being processed (1-based)
    qn,         \* averaging counter n
    qopt,       \* position in the unrolled `for option in [0, 1]` (1-based)
    qa,         \* index into amps (1-based)
    qstate,     \* state[i]: the thresholded readout of the current point
    qcfg,       \* reset_type and flux_point the program was built with
    stream,     \* state_stream[i]: per qubit, the saves in order, each tagged with its loop indices
    events,     \* everything the program did so far, in order, each entry with its qubit
    assembled,  \* ds: per qubit the labelled array built from the streamed buffer
    \* ---- one call of a reset routine of the IQ-blobs script, as the hardware runs it ----
    routine,    \* "active_reset" or "apply_initialize_active"
    rpc,        \* position inside the routine
    operation,  \* qubit.resonator.operations["readout"]: threshold, rus_exit_threshold
    I,          \* the QUA variable I
    count,      \* the QUA variable count
    cont_condition,
    state,      \* the QUA variable state
    attempts,   \* the QUA variable attempts
    measured,   \* I was written by a measurement of this call
    conditioned,\* the condition in force was computed from a measured I
    tally       \* what this call did: pulses, measurements, loop iterations, pulses
                \* played on a condition no measurement of this call produced

scriptVars == <<script, params, stateFile, machine, targets, tracked, connected,
                qmOpen, job, poller, sweep, results, fit, saved, error, pc>>
progVars == <<qpc, qi, qn, qopt, qa, qstate, qcfg, stream, events, assembled>>
resetVars == <<routine, rpc, operation, I, count, cont_condition, state, attempts,
               measured, conditioned, tally>>
vars == <<scriptVars, progVars, resetVars>>

----------------------------------------------------------------------------
(* Bounds of the model *)

MaxTargets == 2     \* longest requested qubit list
MaxAlpha == 2       \* loaded x180 alpha ranges over 1..MaxAlpha
MaxFit == 2         \* finite fitted intersections range over 1..MaxFit
MaxParam == 8       \* sweep parameters range over 0..MaxParam in the sweep specification
MaxAvg == 2         \* num_averages ranges over 0..MaxAvg in the program specification
MaxLen == 2         \* len(amps) ranges over 1..MaxLen in the program specification

----------------------------------------------------------------------------
(* Values held by DeviceState attributes *)

Num(v) == [k |-> "num", v |-> v]
NaN == [k |-> "nan", v |-> 0]
RefX180 == [k |-> "ref", v |-> 0]

\* the probe value the DRAG script forces x180's alpha to
Probe == -1

\* float multiplication: NaN is absorbing
Mul(x, y) == IF x.k = "num" /\ y.k = "num" THEN Num(x.v * y.v) ELSE NaN

QubitNames == {"q1", "q2"}
UnknownName == "q9"
Ops == {"x180", "x90"}

NoDoc == [loaded |-> FALSE]

\* add_default_transmon_pulses: x180 carries alpha, every other gate's alpha is a
\* reference to it
DefaultOperations(a) == [op \in Ops |-> IF op = "x180" THEN Num(a) ELSE RefX180]

Docs ==
    { [loaded |-> TRUE,
       active |-> <<"q1", "q2">>,
       alpha |-> [q \in QubitNames |-> DefaultOperations(f[q])]] :
      f \in [QubitNames -> 1..MaxAlpha] }

\* reading an attribute resolves a reference
ReadAlpha(doc, q, op) ==
    IF doc.alpha[q][op].k = "ref" THEN doc.alpha[q]["x180"] ELSE doc.alpha[q][op]

\* a write that lands on every operation of the qubit
WriteAlphaAllOps(doc, q, op, v) ==
    [doc EXCEPT !.alpha[q] = [o \in Ops |-> v]]

\* q.xy.operations[op].alpha = v replaces that one attribute
WriteAlpha(doc, q, op, v) ==
    [doc EXCEPT !.alpha[q][op] = v]

----------------------------------------------------------------------------
(* TrackableObject / tracked_updates (quam_libs.trackable_object): a wrapper  *)
(* records (path, old value) the first time it sets a path, and               *)
(* revert_changes writes the recorded value back.                             *)

\* `with tracked_updates(q, auto_revert=False) as q: q.xy.operations["x180"].alpha = v`
TrackedSetAlpha(doc, q, v) ==
    [doc |-> WriteAlpha(doc, q, "x180", v),
     wrapper |-> [q |-> q, old |-> ReadAlpha(doc, q, "x180")]]

RevertChanges(doc, w) == WriteAlpha(doc, w.q, "x180", w.old)

\* DRAG lines 73-77: one wrapper per entry of `qubits`, in list order
RECURSIVE ApplyOverrides(_, _, _)
ApplyOverrides(doc, qs, acc) ==
    IF qs = <<>> THEN [doc |-> doc, tracked |-> acc]
    ELSE LET r == TrackedSetAlpha(doc, Head(qs), Num(Probe))
         IN ApplyOverrides(r.doc, Tail(qs), Append(acc, r.wrapper))

\* the revert loop left out
RevertNothing(doc, ws) == doc

\* DRAG lines 222-223: `for qubit in tracked_qubits: qubit.revert_changes()`
RECURSIVE RevertAll(_, _)
RevertAll(doc, ws) ==
    IF ws = <<>> THEN doc
    ELSE RevertAll(RevertChanges(doc, Head(ws)), Tail(ws))

\* DRAG lines 225-227: `q.xy.operations[operation].alpha = fit_results[q.name]["alpha"]`
RECURSIVE UpdateAll(_, _, _, _)
UpdateAll(doc, qs, op, fr) ==
    IF qs = <<>> THEN doc
    ELSE UpdateAll(WriteAlpha(doc, Head(qs), op, fr[Head(qs)]), Tail(qs), op, fr)

----------------------------------------------------------------------------
(* Sweep arrays *)

\* np.arange(start, stop, step) for step > 0: start, start+step, ... below stop
RECURSIVE Arange(_, _, _)
Arange(start, stop, step) ==
    IF start >= stop THEN <<>>
    ELSE <<start>> \o Arange(start + step, stop, step)

\* t2echo lines 71-75: every parameter is floor-divided by 4 (ns -> clock cycles)
ClockCycles(ns) == ns \div 4

\* the arguments the script hands to np.arange
SweepArgs(s, p) ==
    IF s = "t2echo"
    THEN [start |-> ClockCycles(p.minv), stop |-> ClockCycles(p.maxv),
          step |-> ClockCycles(p.step)]
    ELSE [start |-> p.minv, stop |-> p.maxv, step |-> p.step]

----------------------------------------------------------------------------
(* Parameter sets *)

Requests ==
    {[given |-> FALSE, names |-> <<>>]} \cup
    { [given |-> TRUE, names |-> ns] :
      ns \in UNION {[1..n -> QubitNames \cup {UnknownName}] : n \in 1..MaxTargets} }

\* (min, max, step): a proper sweep, a zero step, an empty range
DragSweeps == {<<0, 2, 1>>, <<0, 2, 0>>, <<2, 2, 1>>}
T2Sweeps == {<<16, 24, 4>>, <<16, 24, 3>>, <<24, 16, 4>>}
NavgChoices == {-1, 2}

MkParams(req, navg, op, sw, sim) ==
    [qubits |-> req, num_averages |-> navg, operation |-> op,
     minv |-> sw[1], maxv |-> sw[2], step |-> sw[3], simulate |-> sim]

\* DRAG lines 43-54
DragParameters ==
    { MkParams(req, navg, op, sw, sim) :
      req \in Requests, navg \in NavgChoices, op \in Ops, sw \in DragSweeps,
      sim \in BOOLEAN }

\* t2echo lines 6-15
T2Parameters ==
    { MkParams(req, navg, "x180", sw, sim) :
      req \in Requests, navg \in NavgChoices, sw \in T2Sweeps, sim \in BOOLEAN }

\* the scripts without a Parameters class run with fixed settings (IQ blobs line 120:
\* simulate = False)
FixedParameters ==
    {MkParams([given |-> FALSE, names |-> <<>>], 2, "x180", <<0, 2, 1>>, FALSE)}

Scripts == {"drag", "t2echo", "iqblobs", "gst"}

ParamsOf(s) ==
    CASE s = "drag" -> DragParameters
      [] s = "t2echo" -> T2Parameters
      [] OTHER -> FixedParameters

\* a parameter set the spec calls out of domain
OutOfDomain(s, p) ==
    \/ p.num_averages <= 0
    \/ p.step <= 0 \/ SweepArgs(s, p).step <= 0
    \/ p.minv >= p.maxv \/ SweepArgs(s, p).start >= SweepArgs(s, p).stop

----------------------------------------------------------------------------
(* Statement order of each script *)

\* DRAG with simulate=True: lines 57, 64, 66-70, 73-77, 79-81, 85-143, 147-154
DragSim ==
    <<"construct", "load", "resolve", "override", "connect", "program",
      "simulate", "done">>
\* DRAG with simulate=False: ... 157, 158, 160-164, 169-177, 182-204, 208-218,
\* 222-223, 225-227, 230-232
DragExec ==
    <<"construct", "load", "resolve", "override", "connect", "program",
      "open", "execute", "poll", "fetch", "fit", "plot", "revert", "update",
      "save", "done">>
\* t2echo with simulate=True: lines 22, 51, 53-56, 59-63, 68-151, 158-166 (quit())
T2Sim ==
    <<"construct", "load", "connect", "resolve", "program", "simulate", "done">>
\* t2echo with simulate=False: ... 169, 173, 175-187, 189, 194-198, 201-225,
\* 227-228, 230-249, 252-254
T2Exec ==
    <<"construct", "load", "connect", "resolve", "program", "open", "execute",
      "poll", "close", "fetch", "fit", "store", "plot", "save", "done">>
\* IQ blobs: lines 24, 26-29, 32-33, 86-114, 130, 134, 136-137, 140-143, 146
IqExec ==
    <<"load", "connect", "resolve", "program", "open", "execute", "fetchall",
      "discriminate", "close", "done">>
\* QuaGST.run: lines 32, 33, return
GstRun == <<"open", "execute", "done">>

\* the branch on `simulate` left out: every run goes to the hardware
OrderAlwaysExecute(s, sim) ==
    CASE s = "drag" -> DragExec
      [] s = "t2echo" -> T2Exec
      [] s = "iqblobs" -> IqExec
      [] OTHER -> GstRun

Order(s, sim) ==
    CASE s = "drag" -> (IF sim THEN DragSim ELSE DragExec)
      [] s = "t2echo" -> (IF sim THEN T2Sim ELSE T2Exec)
      [] s = "iqblobs" -> IqExec
      [] OTHER -> GstRun

Succ(p) ==
    LET o == Order(script, params.simulate)
        i == CHOOSE j \in 1..Len(o) : o[j] = p
    IN o[i + 1]

\* DRAG lines 157-164: the statements inside `with qm_session(...) as qm:`
InSession(s, p) == s = "drag" /\ p \in {"execute", "poll"}

----------------------------------------------------------------------------
(* The QUA program before the hardware starts it *)

ProgIdle ==
    /\ qpc = "idle" /\ qi = 0 /\ qn = 0 /\ qopt = 0 /\ qa = 0 /\ qstate = FALSE
    /\ qcfg = [reset |-> "thermal", flux |-> "independent"]
    /\ stream = <<>> /\ events = <<>> /\ assembled = <<>>

\* no reset routine is being followed
ResetIdle ==
    /\ routine = "none" /\ rpc = "idle"
    /\ operation = [threshold |-> 0, rus_exit_threshold |-> 0]
    /\ I = 0 /\ count = 0 /\ cont_condition = FALSE /\ state = FALSE /\ attempts = 0
    /\ measured = FALSE /\ conditioned = FALSE
    /\ tally = [pulses |-> 0, measurements |-> 0, iterations |-> 0, unmeasured |-> 0]

----------------------------------------------------------------------------
(* Initial state: nothing loaded, nothing connected.  QuaGST receives its    *)
(* QuantumMachinesManager from the caller (gst.py line 18).                  *)

ScriptStart(s, p, d) ==
    /\ script = s /\ params = p /\ stateFile = d
    /\ machine = NoDoc /\ targets = <<>> /\ tracked = <<>>
    /\ connected = (s = "gst") /\ qmOpen = FALSE /\ job = "none" /\ poller = 1
    /\ sweep = <<>> /\ results = {} /\ fit = <<>> /\ saved = NoDoc
    /\ error = "none"
    /\ pc = Head(Order(s, p.simulate))

Init ==
    /\ \E s \in Scripts : \E p \in ParamsOf(s) : \E d \in Docs : ScriptStart(s, p, d)
    /\ ProgIdle /\ ResetIdle

----------------------------------------------------------------------------
(* Steps of the scripts *)

\* an exception nobody catches: the script ends; leaving the `with qm_session`
\* block closes the quantum machine on the way out
Raise(e) ==
    /\ pc' = "failed" /\ error' = e
    /\ qmOpen' = IF InSession(script, pc) THEN FALSE ELSE qmOpen

Advance == pc' = Succ(pc) /\ error' = error

\* Parameters(): the class declares field types and defaults, nothing else
Construct ==
    /\ pc = "construct"
    /\ Advance
    /\ UNCHANGED <<script, params, stateFile, machine, targets, tracked, connected,
                   qmOpen, job, poller, sweep, results, fit, saved>>
    /\ UNCHANGED <<progVars, resetVars>>

\* machine = QuAM.load()
Load ==
    /\ pc = "load"
    /\ \/ /\ machine' = stateFile
          /\ Advance /\ qmOpen' = qmOpen
       \/ /\ Raise("StateLoadError") /\ machine' = machine
    /\ UNCHANGED <<script, params, stateFile, targets, tracked, connected,
                   job, poller, sweep, results, fit, saved>>
    /\ UNCHANGED <<progVars, resetVars>>

\* qubits = machine.active_qubits, or [machine.qubits[q] for q in ...]
ResolveTargets ==
    /\ pc = "resolve"
    /\ IF script = "iqblobs"
       THEN /\ targets' = <<machine.active[1], machine.active[2]>>
            /\ Advance /\ qmOpen' = qmOpen
       ELSE IF ~params.qubits.given
       THEN /\ targets' = machine.active
            /\ Advance /\ qmOpen' = qmOpen
       ELSE IF \A i \in 1..Len(params.qubits.names) :
                  params.qubits.names[i] \in DOMAIN machine.alpha
       THEN /\ targets' = params.qubits.names
            /\ Advance /\ qmOpen' = qmOpen
       ELSE /\ Raise("KeyError") /\ targets' = targets
    /\ UNCHANGED <<script, params, stateFile, machine, tracked, connected,
                   job, poller, sweep, results, fit, saved>>
    /\ UNCHANGED <<progVars, resetVars>>

\* DRAG lines 73-77
Override ==
    /\ pc = "override"
    /\ LET r == ApplyOverrides(machine, targets, <<>>)
       IN machine' = r.doc /\ tracked' = r.tracked
    /\ Advance
    /\ UNCHANGED <<script, params, stateFile, targets, connected,
                   qmOpen, job, poller, sweep, results, fit, saved>>
    /\ UNCHANGED <<progVars, resetVars>>

\* config = machine.generate_config(); qmm = machine.connect()
Connect ==
    /\ pc = "connect"
    /\ \/ /\ connected' = TRUE
          /\ Advance /\ qmOpen' = qmOpen
       \/ /\ Raise("ConnectionError") /\ connected' = connected
    /\ UNCHANGED <<script, params, stateFile, machine, targets, tracked,
                   job, poller, sweep, results, fit, saved>>
    /\ UNCHANGED <<progVars, resetVars>>

\* the sweep array and the QUA program; np.arange raises on a zero step and
\* from_array refuses an empty array
BuildProgram ==
    /\ pc = "program"
    /\ LET a == SweepArgs(script, params)
       IN IF script = "iqblobs"
          THEN /\ sweep' = sweep
               /\ Advance /\ qmOpen' = qmOpen
          ELSE IF a.step = 0
          THEN /\ Raise("ZeroDivisionError") /\ sweep' = sweep
          ELSE IF Arange(a.start, a.stop, a.step) = <<>>
          THEN /\ Raise("EmptySweepError") /\ sweep' = <<>>
          ELSE /\ sweep' = Arange(a.start, a.stop, a.step)
               /\ Advance /\ qmOpen' = qmOpen
    /\ UNCHANGED <<script, params, stateFile, machine, targets, tracked, connected,
                   job, poller, results, fit, saved>>
    /\ UNCHANGED <<progVars, resetVars>>

\* the simulate branch: qmm.simulate, plot the samples, node.results = {"figure"},
\* node.machine = machine, node.save()  (t2echo then calls quit())
Simulate ==
    /\ pc = "simulate"
    /\ \/ /\ job' = "simulated"
          /\ results' = {"figure"}
          /\ saved' = machine
          /\ Advance /\ qmOpen' = qmOpen
       \/ /\ Raise("SimulationError")
          /\ UNCHANGED <<job, results, saved>>
    /\ UNCHANGED <<script, params, stateFile, machine, targets, tracked, connected,
                   poller, sweep, fit>>
    /\ UNCHANGED <<progVars, resetVars>>

\* qm_session(qmm, config, timeout) / qmm.open_qm(config)
OpenQm ==
    /\ pc = "open"
    /\ \/ /\ qmOpen' = TRUE
          /\ pc' = Succ(pc) /\ error' = error
       \/ /\ pc' = "failed" /\ error' = "OpenQmError" /\ qmOpen' = qmOpen
    /\ UNCHANGED <<script, params, stateFile, machine, targets, tracked, connected,
                   job, poller, sweep, results, fit, saved>>
    /\ UNCHANGED <<progVars, resetVars>>

\* job = qm.execute(program)
Execute ==
    /\ pc = "execute"
    /\ \/ /\ job' = "running"
          /\ Advance /\ qmOpen' = qmOpen
       \/ /\ Raise("ExecutionError") /\ job' = job
    /\ UNCHANGED <<script, params, stateFile, machine, targets, tracked, connected,
                   poller, sweep, results, fit, saved>>
    /\ UNCHANGED <<progVars, resetVars>>

\* the hardware finishes the program
JobCompletes ==
    /\ job = "running"
    /\ job' = "finished"
    /\ UNCHANGED <<script, params, stateFile, machine, targets, tracked, connected,
                   qmOpen, poller, sweep, results, fit, saved, error, pc>>
    /\ UNCHANGED <<progVars, resetVars>>

\* the loop never tests its condition
NeverProcessing == FALSE

\* results.is_processing(): the job has not signalled completion
IsProcessing == job = "running"

\* one pass of `while results.is_processing():` -- fetch_all and progress_counter
PollIteration ==
    /\ pc = "poll" /\ IsProcessing
    /\ \/ /\ UNCHANGED <<pc, error, qmOpen>>
       \/ Raise("FetchError")
    /\ UNCHANGED <<script, params, stateFile, machine, targets, tracked, connected,
                   job, poller, sweep, results, fit, saved>>
    /\ UNCHANGED <<progVars, resetVars>>

\* is_processing() is false: t2echo goes on to the next qubit's poller; after the
\* last one the loop is left, and in DRAG so is the `with qm_session` block
PollExit ==
    /\ pc = "poll" /\ ~IsProcessing
    /\ IF script = "t2echo" /\ poller < Len(targets)
       THEN /\ poller' = poller + 1
            /\ UNCHANGED <<pc, error, qmOpen>>
       ELSE /\ poller' = poller
            /\ Advance
            /\ qmOpen' = IF InSession(script, pc) THEN FALSE ELSE qmOpen
    /\ UNCHANGED <<script, params, stateFile, machine, targets, tracked, connected,
                   job, sweep, results, fit, saved>>
    /\ UNCHANGED <<progVars, resetVars>>

\* qm.close()
CloseQm ==
    /\ pc = "close"
    /\ qmOpen' = FALSE
    /\ Advance
    /\ UNCHANGED <<script, params, stateFile, machine, targets, tracked, connected,
                   job, poller, sweep, results, fit, saved>>
    /\ UNCHANGED <<progVars, resetVars>>

\* the entries of a list
Range(qs) == {qs[i] : i \in 1..Len(qs)}

\* what a regression can return for one qubit: a finite value, or NaN when the
\* two fitted lines are parallel or the data is degenerate
FitOutcomes == {Num(v) : v \in 1..MaxFit} \cup {NaN}

\* ds = fetch_results_as_xarray(job.result_handles, qubits, axes); DRAG stores it in
\* node.results right away, t2echo keeps it in a local.  A program whose loops ran
\* zero times saved nothing, and a dataset cannot be built from empty handles
FetchResults ==
    /\ pc = "fetch"
    /\ \/ /\ params.num_averages > 0
          /\ results' = IF script = "drag" THEN {"ds"} ELSE results
          /\ Advance /\ qmOpen' = qmOpen
       \/ /\ Raise("FetchError") /\ results' = results
    /\ UNCHANGED <<script, params, stateFile, machine, targets, tracked, connected,
                   job, poller, sweep, fit, saved>>
    /\ UNCHANGED <<progVars, resetVars>>

\* DRAG lines 190-195: intersection_alpha, one entry per position of `qubits`, the
\* intersection scaled by the alpha the operation carries at that moment
IntersectionAlpha(x) ==
    [i \in 1..Len(targets) |-> Mul(x[i], ReadAlpha(machine, targets[i], params.operation))]

\* intersection_alpha.sel(qubit=name).values: every entry whose label is `name`
Sel(arr, name) ==
    LET hits == {i \in 1..Len(targets) : targets[i] = name}
    IN [n \in 1..Cardinality(hits) |->
           arr[CHOOSE i \in hits : Cardinality({j \in hits : j <= i}) = n]]

\* DRAG lines 198-201: fit_results[qubit.name] = {"alpha": float(...)}; float() of
\* an array with more than one element raises TypeError
FloatRaises(arr) == \E q \in Range(targets) : Len(Sel(arr, q)) # 1
DragFit(arr) == [q \in Range(targets) |-> Sel(arr, q)[1]]

\* t2echo lines 201-225: decay fit, tau = -1/decay, per position of `qubits`
T2Fit(x) == [q \in Range(targets) |-> Sel(x, q)[1]]

Fit ==
    /\ pc = "fit"
    /\ \/ /\ script = "drag"
          /\ \E x \in [1..Len(targets) -> FitOutcomes] :
               IF FloatRaises(IntersectionAlpha(x))
               THEN /\ Raise("TypeError") /\ UNCHANGED <<fit, results>>
               ELSE /\ fit' = DragFit(IntersectionAlpha(x))
                    /\ results' = results \cup {"fit_results"}
                    /\ Advance /\ qmOpen' = qmOpen
       \/ /\ script = "t2echo"
          /\ \E x \in [1..Len(targets) -> FitOutcomes] : fit' = T2Fit(x)
          /\ results' = results
          /\ Advance /\ qmOpen' = qmOpen
       \/ /\ Raise("FitError") /\ UNCHANGED <<fit, results>>
    /\ UNCHANGED <<script, params, stateFile, machine, targets, tracked, connected,
                   job, poller, sweep, saved>>
    /\ UNCHANGED <<progVars, resetVars>>

\* t2echo lines 227-228: node.results = {}; node.results['ds'] = ds
StoreDs ==
    /\ pc = "store"
    /\ results' = {"ds"}
    /\ Advance
    /\ UNCHANGED <<script, params, stateFile, machine, targets, tracked, connected,
                   qmOpen, job, poller, sweep, fit, saved>>
    /\ UNCHANGED <<progVars, resetVars>>

\* the figure of the fitted data
Plot ==
    /\ pc = "plot"
    /\ results' = results \cup {IF script = "drag" THEN "figure" ELSE "figure_raw"}
    /\ Advance
    /\ UNCHANGED <<script, params, stateFile, machine, targets, tracked, connected,
                   qmOpen, job, poller, sweep, fit, saved>>
    /\ UNCHANGED <<progVars, resetVars>>

\* DRAG lines 222-223
Revert ==
    /\ pc = "revert"
    /\ machine' = RevertAll(machine, tracked)
    /\ Advance
    /\ UNCHANGED <<script, params, stateFile, targets, tracked, connected,
                   qmOpen, job, poller, sweep, results, fit, saved>>
    /\ UNCHANGED <<progVars, resetVars>>

\* DRAG lines 225-227
UpdateState ==
    /\ pc = "update"
    /\ machine' = UpdateAll(machine, targets, params.operation, fit)
    /\ Advance
    /\ UNCHANGED <<script, params, stateFile, targets, tracked, connected,
                   qmOpen, job, poller, sweep, results, fit, saved>>
    /\ UNCHANGED <<progVars, resetVars>>

\* node.results["initial_parameters"] = ...; node.machine = machine; node.save()
Save ==
    /\ pc = "save"
    /\ \/ /\ results' = results \cup {"initial_parameters"}
          /\ saved' = machine
          /\ Advance /\ qmOpen' = qmOpen
       \/ /\ Raise("SaveError") /\ UNCHANGED <<results, saved>>
    /\ UNCHANGED <<script, params, stateFile, machine, targets, tracked, connected,
                   job, poller, sweep, fit>>
    /\ UNCHANGED <<progVars, resetVars>>

\* IQ blobs lines 136-137: fetching_tool without live mode waits for the job
FetchAll ==
    /\ pc = "fetchall"
    /\ \/ /\ job = "finished"
          /\ Advance /\ qmOpen' = qmOpen
       \/ Raise("FetchError")
    /\ UNCHANGED <<script, params, stateFile, machine, targets, tracked, connected,
                   job, poller, sweep, results, fit, saved>>
    /\ UNCHANGED <<progVars, resetVars>>

\* IQ blobs lines 140-143: two_state_discriminator on both qubits
Discriminate ==
    /\ pc = "discriminate"
    /\ \/ Advance /\ qmOpen' = qmOpen
       \/ Raise("DiscriminatorError")
    /\ UNCHANGED <<script, params, stateFile, machine, targets, tracked, connected,
                   job, poller, sweep, results, fit, saved>>
    /\ UNCHANGED <<progVars, resetVars>>

Next ==
    \/ Construct \/ Load \/ ResolveTargets \/ Override \/ Connect \/ BuildProgram
    \/ Simulate \/ OpenQm \/ Execute \/ JobCompletes \/ PollIteration \/ PollExit
    \/ CloseQm \/ FetchResults \/ Fit \/ StoreDs \/ Plot \/ Revert \/ UpdateState
    \/ Save \/ FetchAll \/ Discriminate

Spec == Init /\ [][Next]_vars

----------------------------------------------------------------------------
(* Properties of the script runs *)

Ended == pc \in {"done", "failed"}
UnknownRequested ==
    /\ params.qubits.given
    /\ \E i \in 1..Len(params.qubits.names) : params.qubits.names[i] \notin QubitNames

\* C1: in every script that opens a hardware session, no run ends (normally or by an
\* exception raised after the quantum machine was opened) with the session still open.
C1_SessionClosedOnEveryExit == Ended => ~qmOpen

\* C2: in the DRAG script the probe value -1.0 is not the x180 alpha of a target qubit
\* in the machine state handed to node.save(), on the simulate path and on the execute
\* path, unless the fit committed exactly that value.
C2_ProbeNeverSaved ==
    (script = "drag" /\ saved.loaded) =>
        \A q \in Range(targets) :
            ReadAlpha(saved, q, "x180") = Num(Probe) =>
                /\ params.operation = "x180"
                /\ q \in DOMAIN fit
                /\ fit[q] = Num(Probe)

C4_NoConnectOnUnknownQubit ==
    (script \in {"drag", "t2echo"} /\ UnknownRequested) => ~connected

\* C5: with simulate=true (DRAG and t2echo) the polling loop is never entered, no
\* quantum machine is opened or executed, no dataset and no fit result is produced,
\* and the only result stored when node.save() runs is the simulated-waveform figure.
C5_SimulateNeverLive ==
    (script \in {"drag", "t2echo"} /\ params.simulate) =>
        /\ pc \notin {"open", "execute", "poll", "fetch", "fit"}
        /\ ~qmOpen
        /\ job \in {"none", "simulated"}
        /\ "ds" \notin results /\ "fit_results" \notin results
        /\ fit = <<>>
        /\ saved.loaded => results = {"figure"}

C5_Witness ==
    /\ script = "t2echo" /\ params.simulate /\ pc = "done"
    /\ saved.loaded /\ job = "simulated" /\ results = {"figure"}

\* C7: a parameter set with an out-of-domain value is rejected when the Parameters
\* object is constructed: such a run never loads the state, connects or executes.
C7_RejectedAtConstruction ==
    (script \in {"drag", "t2echo"} /\ OutOfDomain(script, params)) =>
        /\ pc \in {"construct", "failed"}
        /\ ~machine.loaded /\ ~connected /\ job = "none"

\* C9: the state handed to node.save() by the DRAG script is never one in which a
\* target qubit carries a newly fitted alpha while another target qubit's fit failed
\* (non-finite) and that qubit was not skipped.
C9_NoHalfUpdatedSave ==
    (script = "drag" /\ ~params.simulate /\ saved.loaded) =>
        ~ \E a \in Range(targets) : \E b \in Range(targets) :
            /\ fit[a].k = "num" /\ saved.alpha[a][params.operation] = fit[a]
            /\ fit[b].k = "nan"
            /\ saved.alpha[b][params.operation] # stateFile.alpha[b][params.operation]

\* C10: a qubit whose fit yields NaN is skipped: NaN is never written into DeviceState
\* and the saved attribute keeps its pre-run value, while the finitely fitted qubits
\* are updated and saved.
C10_FailedFitSkipped ==
    /\ machine.loaded =>
          \A q \in QubitNames : \A op \in Ops : machine.alpha[q][op].k # "nan"
    /\ (script = "drag" /\ ~params.simulate /\ saved.loaded) =>
          \A q \in Range(targets) :
              IF fit[q].k = "nan"
              THEN saved.alpha[q][params.operation] = stateFile.alpha[q][params.operation]
              ELSE saved.alpha[q][params.operation] = fit[q]

\* C12: in a non-simulated DRAG run the machine state handed to the final node.save()
\* differs from the loaded state only in the alpha of operations[operation] of the
\* target qubits: every other attribute of every qubit (x180's alpha when the
\* operation is not x180, everything of a non-target qubit, the list of active
\* qubits) has its loaded value.
C12_ReadModifyWrite ==
    (script = "drag" /\ ~params.simulate /\ saved.loaded) =>
        /\ saved.active = stateFile.active
        /\ \A q \in QubitNames : \A op \in Ops :
              (q \notin Range(targets) \/ op # params.operation) =>
                  saved.alpha[q][op] = stateFile.alpha[q][op]

C12_Witness ==
    /\ script = "drag" /\ ~params.simulate /\ pc = "done" /\ saved.loaded
    /\ params.operation = "x180" /\ targets = <<"q1">>
    /\ saved.alpha["q1"]["x180"] # stateFile.alpha["q1"]["x180"]
    /\ saved.alpha["q2"] = stateFile.alpha["q2"]

----------------------------------------------------------------------------
(* The live polling loop.  The job is assumed to signal completion, and the   *)
(* script's control thread keeps running.                                     *)

LiveSpec == Spec /\ WF_vars(JobCompletes) /\ WF_vars(PollExit)

\* C11: the live polling loop is left for the next statement only when the job has
\* stopped processing (in t2echo: only after the last qubit's poller), so qm.close()
\* of t2echo is not reached while the job runs; if the job signals completion the
\* loop ends, and once it has, every remaining poller ends and the statement after
\* the loop follows.
C11_PollingLoop ==
    /\ [][(pc = "poll" /\ pc' \notin {"poll", "failed"}) =>
              /\ job = "finished"
              /\ script = "t2echo" => poller = Len(targets)]_vars
    /\ []((script = "t2echo" /\ pc = "close") => job = "finished")
    /\ (pc = "poll") ~> (pc \in {"fetch", "close", "failed"})
    /\ (pc = "poll" /\ job = "finished") ~> (pc \in {"fetch", "close"})

C11_Witness ==
    /\ script = "t2echo" /\ pc = "close" /\ job = "finished"
    /\ Len(targets) = 2 /\ poller = 2

----------------------------------------------------------------------------
(* The sweep arrays over a range of parameter values: the scripts run up to   *)
(* the construction of the program.                                           *)

\* the declared defaults of DRAG (lines 47-49) in units of 0.0001
DragDefaultSweep == <<1, 20000, 500>>

SweepRange ==
    {<<a, b, c>> : a \in 0..MaxParam, b \in 0..MaxParam, c \in 0..MaxParam}

SweepInit ==
    /\ \E s \in {"drag", "t2echo"} :
       \E sw \in SweepRange \cup (IF s = "drag" THEN {DragDefaultSweep} ELSE {}) :
       \E sim \in BOOLEAN :
          ScriptStart(s, MkParams([given |-> FALSE, names |-> <<>>], 2, "x180", sw, sim),
                      CHOOSE d \in Docs : TRUE)
    /\ ProgIdle /\ ResetIdle

SweepNext ==
    \/ Construct \/ Load \/ ResolveTargets \/ Override \/ Connect \/ BuildProgram

SweepSpec == SweepInit /\ [][SweepNext]_vars

CeilDiv(a, b) == (a + b - 1) \div b

\* C6: for every parameter set with step > 0 and min < max (t2echo: the nanosecond
\* parameters as declared) the sweep array is built, has ceil((max-min)/step)
\* elements and at least one; the DRAG defaults give 40.
C6_SweepLength ==
    (params.step > 0 /\ params.minv < params.maxv) =>
        /\ error \notin {"ZeroDivisionError", "EmptySweepError"}
        /\ pc \in {"simulate", "open"} =>
              /\ Len(sweep) = CeilDiv(params.maxv - params.minv, params.step)
              /\ Len(sweep) >= 1
              /\ <<params.minv, params.maxv, params.step>> = DragDefaultSweep
                     => Len(sweep) = 40

\* the same statement for the DRAG script alone
C6_DragOnly == script = "drag" => C6_SweepLength

----------------------------------------------------------------------------
(* The QUA program drag_calibration (DRAG lines 96-143) as the hardware runs  *)
(* it, while the script waits in its polling loop.  Python-level loops (over  *)
(* qubits, over `option`) are unrolled when the program is built; for_ loops  *)
(* run in real time.  A save is recorded with the loop indices it was taken   *)
(* at instead of the measured bit.                                            *)

NumQubits == Len(targets)
n_avg == params.num_averages

\* the variants flipped
OptionsReversed == <<1, 0>>

\* line 116: `for option in [0, 1]`
Options == <<0, 1>>

Option == Options[qopt]

\* the DRAG script at `while results.is_processing()`, built by its own steps
ProgStart(names, navg, L, reset, flux) ==
    LET d == CHOOSE x \in Docs : TRUE
        r == ApplyOverrides(d, names, <<>>)
    IN /\ script = "drag"
       /\ params = MkParams([given |-> TRUE, names |-> names], navg, "x180",
                            <<0, L, 1>>, FALSE)
       /\ stateFile = d /\ machine = r.doc /\ targets = names /\ tracked = r.tracked
       /\ connected = TRUE /\ qmOpen = TRUE /\ job = "running" /\ poller = 1
       /\ sweep = Arange(0, L, 1) /\ results = {} /\ fit = <<>> /\ saved = NoDoc
       /\ error = "none" /\ pc = "poll"
       /\ qpc = "flux" /\ qi = 1 /\ qn = 0 /\ qopt = 1 /\ qa = 1 /\ qstate = FALSE
       /\ qcfg = [reset |-> reset, flux |-> flux]
       /\ stream = [i \in 1..Len(names) |-> <<>>]
       /\ events = <<>> /\ assembled = <<>>

ProgInit ==
    /\ \E names \in {<<"q1">>, <<"q2">>, <<"q1", "q2">>, <<"q2", "q1">>} :
       \E navg \in 0..MaxAvg : \E L \in 1..MaxLen :
       \E reset \in {"thermal", "active"} : \E flux \in {"independent", "joint"} :
           ProgStart(names, navg, L, reset, flux)
    /\ ResetIdle

\* an entry of the log: what was done, inside the iteration of which qubit
Ev(e) == [q |-> qi, e |-> e]

\* lines 106-112: bring the qubits to the desired frequency point
FluxPoint ==
    /\ qpc = "flux"
    /\ events' = IF qcfg.flux = "independent"
                 THEN events \o <<Ev("apply_all_flux_to_min"), Ev("to_independent_idle")>>
                 ELSE IF qcfg.flux = "joint"
                 THEN Append(events, Ev("apply_all_flux_to_joint_idle"))
                 ELSE Append(events, Ev("apply_all_flux_to_zero"))
    /\ qn' = 0
    /\ qpc' = "avg"
    /\ UNCHANGED <<qi, qopt, qa, qstate, qcfg, stream, assembled>>
    /\ UNCHANGED <<scriptVars, resetVars>>

\* lines 114-116: `with for_(n, 0, n < n_avg, n + 1): save(n, n_st)`, then the first
\* variant
AveragingLoop ==
    /\ qpc = "avg"
    /\ IF qn < n_avg
       THEN /\ qopt' = 1 /\ qa' = 1 /\ qpc' = "amp"
       ELSE /\ qpc' = "align" /\ UNCHANGED <<qopt, qa>>
    /\ UNCHANGED <<qi, qn, qstate, qcfg, stream, events, assembled>>
    /\ UNCHANGED <<scriptVars, resetVars>>

\* line 117: `with for_(*from_array(a, amps))`; when amps is exhausted the next
\* variant starts, and after the last variant the next averaging iteration
AmpLoop ==
    /\ qpc = "amp"
    /\ IF qa <= Len(sweep)
       THEN /\ qpc' = "reset" /\ UNCHANGED <<qn, qopt, qa>>
       ELSE IF qopt < Len(Options)
       THEN /\ qopt' = qopt + 1 /\ qa' = 1 /\ UNCHANGED <<qn, qpc>>
       ELSE /\ qn' = qn + 1 /\ qpc' = "avg" /\ UNCHANGED <<qopt, qa>>
    /\ UNCHANGED <<qi, qstate, qcfg, stream, events, assembled>>
    /\ UNCHANGED <<scriptVars, resetVars>>

\* lines 119-122: active reset or thermalization wait
ResetKind == IF qcfg.reset = "active" THEN "active_reset" ELSE "thermal_wait"

ResetQubit ==
    /\ qpc = "reset"
    /\ events' = Append(events, Ev(ResetKind))
    /\ qpc' = "play1"
    /\ UNCHANGED <<qi, qn, qopt, qa, qstate, qcfg, stream, assembled>>
    /\ UNCHANGED <<scriptVars, resetVars>>

\* the two pulses in the other order
SecondPulseFirst(option) == IF option = 0 THEN "y90" ELSE "x90"

\* lines 125 and 128
FirstPulse(option) == IF option = 0 THEN "x180" ELSE "y180"

\* lines 126 and 129
SecondPulse(option) == IF option = 0 THEN "y90" ELSE "x90"

\* lines 124-129, first pulse
PlayFirst ==
    /\ qpc = "play1"
    /\ events' = Append(events, Ev(FirstPulse(Option)))
    /\ qpc' = "play2"
    /\ UNCHANGED <<qi, qn, qopt, qa, qstate, qcfg, stream, assembled>>
    /\ UNCHANGED <<scriptVars, resetVars>>

\* lines 124-129, second pulse
PlaySecond ==
    /\ qpc = "play2"
    /\ events' = Append(events, Ev(SecondPulse(Option)))
    /\ qpc' = "measure"
    /\ UNCHANGED <<qi, qn, qopt, qa, qstate, qcfg, stream, assembled>>
    /\ UNCHANGED <<scriptVars, resetVars>>

\* lines 131-132: qubit.align(); qubit.resonator.measure("readout", ...)
Measure ==
    /\ qpc = "measure"
    /\ events' = Append(events, Ev("measure"))
    /\ qpc' = "threshold"
    /\ UNCHANGED <<qi, qn, qopt, qa, qstate, qcfg, stream, assembled>>
    /\ UNCHANGED <<scriptVars, resetVars>>

\* lines 133-135: assign(state[i], I[i] > threshold)
Threshold ==
    /\ qpc = "threshold"
    /\ qstate' \in BOOLEAN
    /\ events' = Append(events, Ev("threshold"))
    /\ qpc' = "save"
    /\ UNCHANGED <<qi, qn, qopt, qa, qcfg, stream, assembled>>
    /\ UNCHANGED <<scriptVars, resetVars>>

\* line 136: save(state[i], state_stream[i]); the amplitude loop advances
SaveState ==
    /\ qpc = "save"
    /\ stream' = [stream EXCEPT ![qi] = Append(@, [seq |-> Option, amp |-> qa, n |-> qn])]
    /\ events' = Append(events, Ev("save"))
    /\ qa' = qa + 1
    /\ qpc' = "amp"
    /\ UNCHANGED <<qi, qn, qopt, qstate, qcfg, assembled>>
    /\ UNCHANGED <<scriptVars, resetVars>>

\* line 138: align(), then the next qubit of the unrolled loop
AlignQubits ==
    /\ qpc = "align"
    /\ IF qi < NumQubits
       THEN /\ qi' = qi + 1 /\ qpc' = "flux"
       ELSE /\ qi' = qi /\ qpc' = "finished"
    /\ UNCHANGED <<qn, qopt, qa, qstate, qcfg, stream, events, assembled>>
    /\ UNCHANGED <<scriptVars, resetVars>>

----------------------------------------------------------------------------
(* Stream processing (DRAG line 143) and assembly of the dataset (169-171) *)

\* stream.buffer(k): consecutive groups of k items; an incomplete group is not emitted
Buffer(flat, k) ==
    [j \in 1..(Len(flat) \div k) |-> SubSeq(flat, (j - 1) * k + 1, j * k)]

\* line 143: state_stream[i].boolean_to_int().buffer(len(amps)).buffer(2)
StreamShaping(st) == Buffer(Buffer(st, Len(sweep)), 2)

\* .average(): element by element over the groups received; a cell of the result is
\* represented by the set of samples that went into it
Average(chunks) ==
    [x \in 1..Len(chunks[1]) |->
        [y \in 1..Len(chunks[1][x]) |-> {chunks[c][x][y] : c \in 1..Len(chunks)}]]

\* the buffer a result handle returns, row by row
RECURSIVE Flatten(_)
Flatten(rows) == IF rows = <<>> THEN <<>> ELSE Head(rows) \o Flatten(Tail(rows))

\* line 170: {"amp": amps, "sequence": [0, 1]}, from the innermost loop outwards
AxisSpec ==
    <<[name |-> "amp", coords |-> sweep], [name |-> "sequence", coords |-> <<0, 1>>]>>

\* product of the declared axis lengths
AxisProduct(axes) == Len(axes[1].coords) * Len(axes[2].coords)

\* assemble: reshape of the flat buffer, the first axis of the specification varying
\* fastest; every element gets the coordinates of its position
Assemble(flat, axes) ==
    LET inner == axes[1]
        outer == axes[2]
    IN [x \in 1..Len(outer.coords) |->
          [y \in 1..Len(inner.coords) |->
             [labels |-> (outer.name :> outer.coords[x]) @@ (inner.name :> inner.coords[y]),
              samples |-> flat[(x - 1) * Len(inner.coords) + y]]]]

\* the buffer of qubit i as fetched after the job
Fetched(i) == Flatten(Average(StreamShaping(stream[i])))

\* ds = fetch_results_as_xarray(job.result_handles, qubits, axes)
AssembleResults ==
    /\ qpc = "finished"
    /\ IF \E i \in 1..NumQubits : StreamShaping(stream[i]) = <<>>
       THEN /\ qpc' = "no_data" /\ assembled' = assembled
       ELSE IF \E i \in 1..NumQubits : Len(Fetched(i)) # AxisProduct(AxisSpec)
       THEN /\ qpc' = "shape_mismatch" /\ assembled' = assembled
       ELSE /\ qpc' = "assembled"
            /\ assembled' = [i \in 1..NumQubits |-> Assemble(Fetched(i), AxisSpec)]
    /\ UNCHANGED <<qi, qn, qopt, qa, qstate, qcfg, stream, events>>
    /\ UNCHANGED <<scriptVars, resetVars>>

ProgNext ==
    \/ FluxPoint \/ AveragingLoop \/ AmpLoop \/ ResetQubit \/ PlayFirst \/ PlaySecond
    \/ Measure \/ Threshold \/ SaveState \/ AlignQubits \/ AssembleResults

ProgSpec == ProgInit /\ [][ProgNext]_vars

\* C8: per qubit and averaging iteration the state stream receives exactly
\* 2*len(amps) saves, the k-th of them taken with variant k div len(amps) at amplitude
\* index k mod len(amps); the buffer has the product of the declared axis lengths, and
\* every element of the assembled array carries the (sequence, amp) it was measured at.
C8_StreamMatchesAxes ==
    LET L == Len(sweep)
    IN /\ \A i \in 1..Len(stream) : \A p \in 1..Len(stream[i]) :
            LET k == (p - 1) % (2 * L)
            IN /\ stream[i][p].n = (p - 1) \div (2 * L)
               /\ stream[i][p].seq = k \div L
               /\ stream[i][p].amp = (k % L) + 1
       /\ qpc = "avg" => Len(stream[qi]) = qn * 2 * L
       /\ qpc \in {"finished", "assembled", "no_data"} =>
             \A i \in 1..Len(stream) : Len(stream[i]) = (IF n_avg > 0 THEN n_avg ELSE 0) * 2 * L
       /\ qpc # "shape_mismatch"
       /\ qpc = "assembled" =>
             \A i \in 1..NumQubits :
                /\ Len(Fetched(i)) = 2 * L
                /\ \A x \in 1..2 : \A y \in 1..L :
                      LET cell == assembled[i][x][y]
                      IN /\ Cardinality(cell.samples) = n_avg
                         /\ \A smp \in cell.samples :
                               /\ smp.seq = cell.labels["sequence"]
                               /\ sweep[smp.amp] = cell.labels["amp"]

C8_Witness ==
    /\ qpc = "assembled" /\ NumQubits = 2 /\ n_avg = 2 /\ Len(sweep) = 2
    /\ assembled[2][2][1].labels = ("sequence" :> 1) @@ ("amp" :> 0)
    /\ assembled[2][2][1].samples =
          {[seq |-> 1, amp |-> 1, n |-> 0], [seq |-> 1, amp |-> 1, n |-> 1]}

----------------------------------------------------------------------------
(* Order of the program's events *)

BiasEvents ==
    {"apply_all_flux_to_min", "to_independent_idle", "apply_all_flux_to_joint_idle",
     "apply_all_flux_to_zero"}

\* the events of one point of variant v, in the order the docstring gives them
PointEvents(v) ==
    <<ResetKind, IF v = 0 THEN "x180" ELSE "y180", IF v = 0 THEN "y90" ELSE "x90",
      "measure", "threshold", "save">>

\* the positions of the log that belong to the sweep of qubit i
SweepPositions(i) ==
    {x \in 1..Len(events) : events[x].q = i /\ events[x].e \notin BiasEvents}

\* C13: in the DRAG program, for every qubit, averaging iteration, variant and
\* amplitude point the events are, once each and in this order: reset, the two drive
\* pulses (x180 then y90 for variant 0, y180 then x90 for variant 1), measurement,
\* thresholding, save; every measurement has a reset of its own before it, and every
\* event of qubit i precedes every event of qubit i+1.
C13_EventOrder ==
    /\ \A i \in 1..NumQubits :
       \* b: how many entries precede the sweep of qubit i
       \A b \in {Cardinality({y \in 1..Len(events) :
                                \/ events[y].q < i
                                \/ events[y].q = i /\ events[y].e \in BiasEvents})} :
       \A x \in 1..Len(events) :
          events[x].q = i =>
             IF events[x].e \in BiasEvents
             THEN x <= b
             ELSE /\ x > b
                  /\ events[x].e =
                        PointEvents((((x - b - 1) \div 6) \div Len(sweep)) % 2)[((x - b - 1) % 6) + 1]
    /\ \A x \in 1..Len(events) :
          events[x].e = "measure" =>
             \E d \in 1..(x - 1) :
                /\ events[x - d] = [q |-> events[x].q, e |-> ResetKind]
                /\ \A y \in (x - d + 1)..(x - 1) :
                      events[y].e \notin {"measure", ResetKind}
    /\ \A x \in 1..(Len(events) - 1) : events[x].q <= events[x + 1].q
    /\ \A i \in 1..Len(stream) :
          Cardinality({x \in SweepPositions(i) : events[x].e = "save"}) = Len(stream[i])
    /\ qpc \in {"finished", "assembled", "no_data"} =>
          \A i \in 1..NumQubits :
             Cardinality(SweepPositions(i)) =
                6 * 2 * Len(sweep) * (IF n_avg > 0 THEN n_avg ELSE 0)

C13_Witness ==
    /\ qpc = "finished" /\ NumQubits = 2 /\ n_avg = 2 /\ Len(sweep) = 2
    /\ qcfg.reset = "active"
    /\ Cardinality(SweepPositions(1)) = 48 /\ Cardinality(SweepPositions(2)) = 48
    /\ events[Len(events)] = [q |-> 2, e |-> "save"]

----------------------------------------------------------------------------
(* The reset routines of the IQ-blobs script (lines 36-77) as the hardware    *)
(* runs one call of them.  A QUA variable declared without a value holds      *)
(* whatever the register held: nothing, or what an earlier pass through the   *)
(* same code left there.                                                      *)

MaxI == 2           \* I and the thresholds range over 0..MaxI
IntBits == 3        \* width of a QUA int in the model
MaxTally == 4       \* the tally of pulses and measurements stops counting here

Wrap(n) == n % (2 ^ IntBits)
Bump(n) == IF n < MaxTally THEN n + 1 ELSE n

ResetInit ==
    /\ \E d \in Docs :
          /\ script = "iqblobs"
          /\ params \in FixedParameters
          /\ stateFile = d /\ machine = d /\ targets = d.active /\ tracked = <<>>
          /\ connected = TRUE /\ qmOpen = TRUE /\ job = "running" /\ poller = 1
          /\ sweep = <<>> /\ results = {} /\ fit = <<>> /\ saved = NoDoc
          /\ error = "none" /\ pc = "fetchall"
    /\ ProgIdle
    /\ routine \in {"active_reset", "apply_initialize_active"}
    /\ rpc = "call"
    /\ operation \in [threshold : 0..MaxI, rus_exit_threshold : 0..MaxI]
    /\ I \in 0..MaxI
    /\ count \in 0..3 /\ cont_condition \in BOOLEAN /\ state \in BOOLEAN
    /\ attempts = 1
    /\ measured = FALSE /\ conditioned = FALSE
    /\ tally = [pulses |-> 0, measurements |-> 0, iterations |-> 0, unmeasured |-> 0]

\* what a play of the pi pulse adds to the tally
Played ==
    [tally EXCEPT !.pulses = Bump(@),
                  !.unmeasured = IF conditioned THEN @ ELSE Bump(@)]

\* lines 37-42: the declarations, count = 0, and the first value of cont_condition
ArEnter ==
    /\ routine = "active_reset" /\ rpc = "call"
    /\ count' = 0
    /\ cont_condition' = (I > operation.threshold /\ 0 < 3)
    /\ conditioned' = measured
    /\ rpc' = "while"
    /\ UNCHANGED <<routine, operation, I, state, attempts, measured, tally>>
    /\ UNCHANGED <<scriptVars, progVars>>

\* line 43: with while_(cont_condition); line 49: return
ArWhile ==
    /\ routine = "active_reset" /\ rpc = "while"
    /\ rpc' = IF cont_condition THEN "play" ELSE "done"
    /\ UNCHANGED <<routine, operation, I, count, cont_condition, state, attempts,
                   measured, conditioned, tally>>
    /\ UNCHANGED <<scriptVars, progVars>>

\* lines 44-45: qubit.xy.play("x180"), align
ArPlay ==
    /\ routine = "active_reset" /\ rpc = "play"
    /\ tally' = Played
    /\ rpc' = "measure"
    /\ UNCHANGED <<routine, operation, I, count, cont_condition, state, attempts,
                   measured, conditioned>>
    /\ UNCHANGED <<scriptVars, progVars>>

\* line 46: qubit.resonator.measure("readout", qua_vars=(I, Q))
ArMeasure ==
    /\ routine = "active_reset" /\ rpc = "measure"
    /\ I' \in 0..MaxI
    /\ measured' = TRUE
    /\ tally' = [tally EXCEPT !.measurements = Bump(@)]
    /\ rpc' = "count"
    /\ UNCHANGED <<routine, operation, count, cont_condition, state, attempts,
                   conditioned>>
    /\ UNCHANGED <<scriptVars, progVars>>

\* lines 47-48: count = count + 1, and cont_condition again
ArCount ==
    /\ routine = "active_reset" /\ rpc = "count"
    /\ count' = Wrap(count + 1)
    /\ cont_condition' = (I > operation.threshold /\ count' < 3)
    /\ conditioned' = measured
    /\ tally' = [tally EXCEPT !.iterations = Wrap(@ + 1)]
    /\ rpc' = "while"
    /\ UNCHANGED <<routine, operation, I, state, attempts, measured>>
    /\ UNCHANGED <<scriptVars, progVars>>

\* lines 53-59: the declarations, attempts = 1, align
AiEnter ==
    /\ routine = "apply_initialize_active" /\ rpc = "call"
    /\ attempts' = 1
    /\ rpc' = "measure"
    /\ UNCHANGED <<routine, operation, I, count, cont_condition, state, measured,
                   conditioned, tally>>
    /\ UNCHANGED <<scriptVars, progVars>>

\* line 61: the first measurement
AiMeasure ==
    /\ routine = "apply_initialize_active" /\ rpc = "measure"
    /\ I' \in 0..MaxI
    /\ measured' = TRUE
    /\ tally' = [tally EXCEPT !.measurements = Bump(@)]
    /\ rpc' = "discriminate"
    /\ UNCHANGED <<routine, operation, count, cont_condition, state, attempts,
                   conditioned>>
    /\ UNCHANGED <<scriptVars, progVars>>

\* lines 63-65: state = I > threshold, wait for the resonator to deplete
AiDiscriminate ==
    /\ routine = "apply_initialize_active" /\ rpc = "discriminate"
    /\ state' = (I > operation.threshold)
    /\ conditioned' = measured
    /\ rpc' = "play"
    /\ UNCHANGED <<routine, operation, I, count, cont_condition, attempts, measured,
                   tally>>
    /\ UNCHANGED <<scriptVars, progVars>>

\* lines 67-68: qubit.xy.play(pi_operation_name, condition=state), align
AiPlay ==
    /\ routine = "apply_initialize_active" /\ rpc = "play"
    /\ tally' = IF state THEN Played ELSE tally
    /\ rpc' = "while"
    /\ UNCHANGED <<routine, operation, I, count, cont_condition, state, attempts,
                   measured, conditioned>>
    /\ UNCHANGED <<scriptVars, progVars>>

\* line 70: with while_(I > operation.rus_exit_threshold)
AiWhile ==
    /\ routine = "apply_initialize_active" /\ rpc = "while"
    /\ rpc' = IF I > operation.rus_exit_threshold THEN "loop_measure" ELSE "done"
    /\ UNCHANGED <<routine, operation, I, count, cont_condition, state, attempts,
                   measured, conditioned, tally>>
    /\ UNCHANGED <<scriptVars, progVars>>

\* lines 71-72: align, measure again
AiLoopMeasure ==
    /\ routine = "apply_initialize_active" /\ rpc = "loop_measure"
    /\ I' \in 0..MaxI
    /\ measured' = TRUE
    /\ tally' = [tally EXCEPT !.measurements = Bump(@)]
    /\ rpc' = "loop_discriminate"
    /\ UNCHANGED <<routine, operation, count, cont_condition, state, attempts,
                   conditioned>>
    /\ UNCHANGED <<scriptVars, progVars>>

\* lines 73-74
AiLoopDiscriminate ==
    /\ routine = "apply_initialize_active" /\ rpc = "loop_discriminate"
    /\ state' = (I > operation.threshold)
    /\ conditioned' = measured
    /\ rpc' = "loop_play"
    /\ UNCHANGED <<routine, operation, I, count, cont_condition, attempts, measured,
                   tally>>
    /\ UNCHANGED <<scriptVars, progVars>>

\* lines 75-76
AiLoopPlay ==
    /\ routine = "apply_initialize_active" /\ rpc = "loop_play"
    /\ tally' = IF state THEN Played ELSE tally
    /\ rpc' = "loop_count"
    /\ UNCHANGED <<routine, operation, I, count, cont_condition, state, attempts,
                   measured, conditioned>>
    /\ UNCHANGED <<scriptVars, progVars>>

\* line 77: attempts = attempts + 1, back to the loop test
AiCount ==
    /\ routine = "apply_initialize_active" /\ rpc = "loop_count"
    /\ attempts' = Wrap(attempts + 1)
    /\ tally' = [tally EXCEPT !.iterations = Wrap(@ + 1)]
    /\ rpc' = "while"
    /\ UNCHANGED <<routine, operation, I, count, cont_condition, state, measured,
                   conditioned>>
    /\ UNCHANGED <<scriptVars, progVars>>

ResetNext ==
    \/ ArEnter \/ ArWhile \/ ArPlay \/ ArMeasure \/ ArCount
    \/ AiEnter \/ AiMeasure \/ AiDiscriminate \/ AiPlay \/ AiWhile
    \/ AiLoopMeasure \/ AiLoopDiscriminate \/ AiLoopPlay \/ AiCount

\* the hardware keeps executing the program
ResetSpec == ResetInit /\ [][ResetNext]_vars /\ WF_vars(ResetNext)

\* C14: in active_reset and in apply_initialize_active every pi pulse that is played
\* is conditioned on the outcome of a readout measurement performed earlier in the
\* same call.
C14_PulseAfterMeasurement == tally.unmeasured = 0

\* C15: every reset retry loop ends after a bounded number of attempts whatever the
\* measurement outcomes are: active_reset plays at most 3 pi pulses and takes at most
\* 3 measurements, and apply_initialize_active leaves its loop, with attempts equal
\* to 1 plus the number of loop iterations and the last I not above
\* rus_exit_threshold.
C15_RetryLoopsTerminate ==
    /\ [](routine = "active_reset" => tally.pulses <= 3 /\ tally.measurements <= 3)
    /\ []((routine = "apply_initialize_active" /\ rpc = "done") =>
             /\ attempts = Wrap(1 + tally.iterations)
             /\ I <= operation.rus_exit_threshold)
    /\ <>(rpc = "done")

----------------------------------------------------------------------------
(* The QUA program of t2echo (lines 85-151) as the hardware runs it, with     *)
(* use_state_discrimination at its default.  It shares the program variables  *)
(* with drag_calibration; its positions carry the prefix t2.                  *)

\* bool(x) of a Python string
Truthy(str) == str # ""

\* line 97: `flux_point == "joint" or "arbitrary"` -- the comparison, or else the
\* string "arbitrary" itself, taken as a condition
ElifCondition(flux_point) ==
    IF flux_point = "joint" THEN TRUE ELSE Truthy("arbitrary")

T2ProgStart(names, navg, L, reset, flux) ==
    LET d == CHOOSE x \in Docs : TRUE
    IN /\ script = "t2echo"
       /\ params = MkParams([given |-> TRUE, names |-> names], navg, "x180",
                            <<16, 16 + 4 * L, 4>>, FALSE)
       /\ stateFile = d /\ machine = d /\ targets = names /\ tracked = <<>>
       /\ connected = TRUE /\ qmOpen = TRUE /\ job = "running" /\ poller = 1
       /\ sweep = Arange(ClockCycles(16), ClockCycles(16 + 4 * L), ClockCycles(4))
       /\ results = {} /\ fit = <<>> /\ saved = NoDoc
       /\ error = "none" /\ pc = "poll"
       /\ qpc = "t2flux" /\ qi = 1 /\ qn = 0 /\ qopt = 0 /\ qa = 1 /\ qstate = FALSE
       /\ qcfg = [reset |-> reset, flux |-> flux]
       /\ stream = [i \in 1..Len(names) |-> <<>>]
       /\ events = <<>> /\ assembled = <<>>

\* line 12: Literal['joint', 'independent', 'arbitrary']
T2FluxModes == {"joint", "independent", "arbitrary"}

T2ProgInit ==
    /\ \E names \in {<<"q1">>, <<"q1", "q2">>} :
       \E navg \in 0..MaxAvg : \E L \in 1..MaxLen :
       \E reset \in {"thermal", "active"} : \E flux \in T2FluxModes :
           T2ProgStart(names, navg, L, reset, flux)
    /\ ResetIdle

\* lines 94-100
T2FluxPoint ==
    /\ qpc = "t2flux"
    /\ events' = IF qcfg.flux = "independent"
                 THEN events \o <<Ev("apply_all_flux_to_min"), Ev("to_independent_idle")>>
                 ELSE IF ElifCondition(qcfg.flux)
                 THEN Append(events, Ev("apply_all_flux_to_joint_idle"))
                 ELSE Append(events, Ev("apply_all_flux_to_zero"))
    /\ qpc' = "t2settle"
    /\ UNCHANGED <<qi, qn, qopt, qa, qstate, qcfg, stream, assembled>>
    /\ UNCHANGED <<scriptVars, resetVars>>

\* lines 102-105: wait(1000, qb.z.name) for every qubit, align()
T2Settle ==
    /\ qpc = "t2settle"
    /\ events' = events \o <<Ev("wait_z"), Ev("align")>>
    /\ qn' = 0
    /\ qpc' = "t2avg"
    /\ UNCHANGED <<qi, qopt, qa, qstate, qcfg, stream, assembled>>
    /\ UNCHANGED <<scriptVars, resetVars>>

\* lines 107-108: with for_(n, 0, n < n_avg, n + 1): save(n, n_st)
T2AveragingLoop ==
    /\ qpc = "t2avg"
    /\ IF qn < n_avg
       THEN /\ qa' = 1 /\ qpc' = "t2idle"
       ELSE /\ qa' = qa /\ qpc' = "t2align"
    /\ UNCHANGED <<qi, qn, qopt, qstate, qcfg, stream, events, assembled>>
    /\ UNCHANGED <<scriptVars, resetVars>>

\* line 109: with for_(*from_array(t, idle_times))
T2IdleLoop ==
    /\ qpc = "t2idle"
    /\ IF qa <= Len(sweep)
       THEN /\ qpc' = "t2reset" /\ qn' = qn
       ELSE /\ qn' = qn + 1 /\ qpc' = "t2avg"
    /\ UNCHANGED <<qi, qopt, qa, qstate, qcfg, stream, events, assembled>>
    /\ UNCHANGED <<scriptVars, resetVars>>

\* lines 110-114
T2Reset ==
    /\ qpc = "t2reset"
    /\ events' = Append(events, Ev(ResetKind))
    /\ qpc' = "t2echo"
    /\ UNCHANGED <<qi, qn, qopt, qa, qstate, qcfg, stream, assembled>>
    /\ UNCHANGED <<scriptVars, resetVars>>

\* lines 117-130: x90, idle, x180, idle, -x90
T2EchoSequence ==
    /\ qpc = "t2echo"
    /\ events' = events \o <<Ev("x90"), Ev("idle"), Ev("x180"), Ev("idle"), Ev("-x90")>>
    /\ qpc' = "t2readout"
    /\ UNCHANGED <<qi, qn, qopt, qa, qstate, qcfg, stream, assembled>>
    /\ UNCHANGED <<scriptVars, resetVars>>

\* lines 133-135: readout_state(q, state[i]); save(state[i], state_st[i])
T2Readout ==
    /\ qpc = "t2readout"
    /\ qstate' \in BOOLEAN
    /\ events' = events \o <<Ev("measure"), Ev("save")>>
    /\ stream' = [stream EXCEPT ![qi] = Append(@, [seq |-> 0, amp |-> qa, n |-> qn])]
    /\ qa' = qa + 1
    /\ qpc' = "t2idle"
    /\ UNCHANGED <<qi, qn, qopt, qcfg, assembled>>
    /\ UNCHANGED <<scriptVars, resetVars>>

\* line 142: align(), then the next qubit of the unrolled loop
T2Align ==
    /\ qpc = "t2align"
    /\ IF qi < NumQubits
       THEN /\ qi' = qi + 1 /\ qpc' = "t2flux"
       ELSE /\ qi' = qi /\ qpc' = "t2finished"
    /\ UNCHANGED <<qn, qopt, qa, qstate, qcfg, stream, events, assembled>>
    /\ UNCHANGED <<scriptVars, resetVars>>

T2Next ==
    \/ T2FluxPoint \/ T2Settle \/ T2AveragingLoop \/ T2IdleLoop \/ T2Reset
    \/ T2EchoSequence \/ T2Readout \/ T2Align

\* both programs
FluxInit == ProgInit \/ T2ProgInit
FluxNext == ProgNext \/ T2Next
FluxSpec == FluxInit /\ [][FluxNext]_vars

\* the bias actions the mode calls for
BiasOfMode(mode) ==
    IF mode = "independent" THEN <<"apply_all_flux_to_min", "to_independent_idle">>
    ELSE IF mode = "joint" THEN <<"apply_all_flux_to_joint_idle">>
    ELSE <<"apply_all_flux_to_zero">>

\* C16: for each qubit, before its sweep loop, the flux-point selection applies exactly
\* the bias action of the mode: 'independent' all-flux-to-min then the qubit's
\* independent idle, 'joint' all-flux-to-joint-idle, any other mode (t2echo's
\* 'arbitrary') all-flux-to-zero and not the joint action.
C16_FluxPointByMode ==
    \A i \in 1..NumQubits :
       (qi > i \/ (qi = i /\ qpc \notin {"flux", "t2flux"})) =>
          \A b \in {Cardinality({y \in 1..Len(events) : events[y].q < i})} :
             LET want == BiasOfMode(qcfg.flux)
             IN /\ Len(events) >= b + Len(want)
                /\ \A j \in 1..Len(want) : events[b + j] = [q |-> i, e |-> want[j]]
                /\ Cardinality({y \in 1..Len(events) :
                                  events[y].q = i /\ events[y].e \in BiasEvents}) = Len(want)

====
